---- MODULE Spec2Model ----
(***************************************************************************)
(* A model of the miqro workflow dispatch core (index.ts): the startup     *)
(* that builds the workflow registry and binds cron timers, the            *)
(* POST /:workflowId webhook handler, and the cron timer callbacks.        *)
(*                                                                         *)
(* JavaScript values that may be undefined are modelled as sets of at most *)
(* one element: None is undefined, Some(x) is the value x.                 *)
(***************************************************************************)
EXTENDS Integers, Sequences, FiniteSets, TLC

VARIABLES
  pc,         \* "boot" before startup, "up" once a server was returned, "failed" when startup threw
  entry,      \* the entry point used: "none", "core" (startMiqroCore) or "dir" (startMiqro)
  supplied,   \* the definitions handed to the entry point (static list, or the directory's modules)
  workflows,  \* the registry of startMiqroCore: own properties in insertion order, <<[key, wf], ...>>
  tasks,      \* the callbacks bound with cron.schedule, one per successful call: <<[expr, wf], ...>>
  config,     \* the MiqroConfig handed to the entry point: [middleware]
  stack,      \* the middleware registered with app.use("*", ...), in registration order
  pending,    \* execute calls whose returned promise has not settled yet
  last,       \* what the most recent handler / callback run did (history)
  alive,      \* FALSE once a fault reached the process level and ended the process
  fs,         \* the CLI's working directory: path -> "absent", "dir", or a file's content
  inits       \* the `miqro init` runs so far: the directory each found, and its exit code

coreVars == <<pc, entry, supplied, config, stack, workflows, tasks, pending, last, alive>>
cliVars == <<fs, inits>>
vars == <<pc, entry, supplied, config, stack, workflows, tasks, pending, last, alive, fs, inits>>

----------------------------------------------------------------------------
(* Bounds of the model *)

\* execute calls that may be pending at the same time
MaxPending == 2
\* values Date.now() is drawn from
MaxClock == 2
MaxInits == 2

----------------------------------------------------------------------------
(* JavaScript values *)

None == {}
Some(x) == {x}
Get(o) == CHOOSE x \in o : TRUE

\* JavaScript truthiness of string | undefined: undefined and "" are falsy
Truthy(o) == o # None /\ o # Some("")

\* a || b
\* b || a : the operands taken in the other order
OrElse_Swapped(a, b) == IF Truthy(b) THEN b ELSE a

OrElse(a, b) == IF Truthy(a) THEN a ELSE b

\* Strings that are inspected by prefix are sequences of characters
BearerPrefix == <<"B", "e", "a", "r", "e", "r", " ">>

\* String.prototype.startsWith
StartsWith(s, p) == Len(s) >= Len(p) /\ SubSeq(s, 1, Len(p)) = p

----------------------------------------------------------------------------
(* Workflow definitions (types.ts) the entry points are started with *)

AuthNone == [type |-> "none"]
AuthApiKey(k) == [type |-> "apiKey", key |-> k]
AuthBearer(t) == [type |-> "bearer", token |-> t]

TokenT == <<"t">>

\* A schema in the shape of types.ts: safeParse(data) is success-with-data or
\* failure-with-details.  This one requires n > 0 and strips unknown keys.
SchemaPos == "n>0"

SafeParse(schema, data) ==
  IF "n" \in DOMAIN data /\ data.n > 0
  THEN [success |-> TRUE, data |-> [n |-> data.n]]
  ELSE [success |-> FALSE, details |-> [n |-> "must be greater than 0"]]

Def(id, name, auth, schedule, schema, body) ==
  [config |-> Some([id |-> id, name |-> name, auth |-> auth,
                    schedule |-> schedule, schema |-> schema]),
   execute |-> body]

EveryMinute == "* * * * *"
BadCron == "every minute"

WEcho     == Def(Some("a"), Some("Echo"), AuthNone, None, None, "echo")
WSecure   == Def(Some("b"), Some("Secure"), AuthApiKey("k1"), None, None, "secure")
WBearer   == Def(Some("b"), Some("Bearer"), AuthBearer(TokenT), None, None, "bearer")
WV        == Def(Some("a"), Some("V"), AuthNone, None, Some(SchemaPos), "v")
WJob      == Def(Some("a"), Some("Job"), AuthApiKey("k1"), Some(EveryMinute), Some(SchemaPos), "job")
WSync     == Def(Some("b"), None, AuthBearer(TokenT), Some(EveryMinute), None, "sync")
WBadCron  == Def(Some("b"), Some("Bad"), AuthNone, Some(BadCron), None, "bad")
WNoId     == Def(None, Some("Anon"), AuthNone, Some(EveryMinute), None, "anon")
WEmptyId  == Def(Some(""), Some("Empty"), AuthNone, None, None, "empty")
WEmptyKey == Def(Some("b"), Some("EmptyKey"), AuthApiKey(""), None, None, "emptykey")
WNoConfig == [config |-> None, execute |-> "noconfig"]

\* The lists of definitions an entry point may be started with
Supplied ==
  { <<>>,
    <<WEcho, WSecure>>,
    <<WV, WBearer>>,
    <<WJob, WSync>>,
    <<WEcho, WV>>,
    <<WJob, WEcho>>,
    <<WBadCron, WEcho>>,
    <<WEcho, WBadCron>>,
    <<WNoId, WEcho>>,
    <<WNoConfig, WEmptyId, WEmptyKey>> }

----------------------------------------------------------------------------
(* The registry: a plain JavaScript object used as a map *)

\* Property names every object inherits from Object.prototype
ProtoKeys == {"constructor"}

Keys(obj) == {obj[i].key : i \in 1..Len(obj)}

\* a count of the keys whose definition declares a schedule only
KeyCount_ScheduledOnly(obj) ==
  Cardinality({i \in 1..Len(obj) : Truthy(Get(obj[i].wf.config).schedule)})

\* Object.keys(obj).length
KeyCount(obj) == Len(obj)

\* Variant of the assignment that keeps the value an existing key has
Put_KeepFirst(obj, k, v) ==
  IF k \in Keys(obj) THEN obj ELSE Append(obj, [key |-> k, wf |-> v])

\* obj[k] = v : an existing own property keeps its position
Put(obj, k, v) ==
  IF k \in Keys(obj)
  THEN [i \in 1..Len(obj) |-> IF obj[i].key = k THEN [key |-> k, wf |-> v] ELSE obj[i]]
  ELSE Append(obj, [key |-> k, wf |-> v])

OwnValue(obj, k) == (CHOOSE i \in 1..Len(obj) : obj[i].key = k)

\* obj[k] : an own property, else an inherited one, else undefined.
\* kind is "own", "inherited" (a value of Object.prototype, truthy, with no
\* config property) or "undefined".
Lookup(obj, k) ==
  IF k \in Keys(obj) THEN [kind |-> "own", wf |-> obj[OwnValue(obj, k)].wf]
  ELSE IF k \in ProtoKeys THEN [kind |-> "inherited"]
  ELSE [kind |-> "undefined"]

\* Object.values(obj)
Values(obj) == [i \in 1..Len(obj) |-> obj[i].wf]

----------------------------------------------------------------------------
(* Startup *)

\* node-cron accepts the expression
ValidCron(expr) == expr = EveryMinute

\* workflow?.config?.id
IdOf(wf) == IF wf.config = None THEN None ELSE Get(wf.config).id

\* cron.schedule(expr, callback): throws on an expression it rejects, else
\* keeps the callback, which closes over the definition wf
CronSchedule(st, expr, wf) ==
  IF ValidCron(expr)
  THEN [st EXCEPT !.tasks = Append(@, [expr |-> expr, wf |-> wf])]
  ELSE [st EXCEPT !.threw = TRUE]

\* Variant of the iteration that takes any id that is present, an empty one too
Register_AnyId(st, wf) ==
  IF IdOf(wf) # None
  THEN LET st1 == [st EXCEPT !.workflows = Put(@, Get(IdOf(wf)), wf)]
           schedule == Get(wf.config).schedule
       IN IF Truthy(schedule) THEN CronSchedule(st1, Get(schedule), wf) ELSE st1
  ELSE st

\* One iteration of the registration loop, on st = [workflows, tasks, threw]
Register(st, wf) ==
  IF Truthy(IdOf(wf))
  THEN LET st1 == [st EXCEPT !.workflows = Put(@, Get(IdOf(wf)), wf)]
           schedule == Get(wf.config).schedule
       IN IF Truthy(schedule) THEN CronSchedule(st1, Get(schedule), wf) ELSE st1
  ELSE st

\* The loop over the definitions: an exception ends it
RECURSIVE RegisterAll(_, _, _)
RegisterAll(st, list, i) ==
  IF i > Len(list) \/ st.threw THEN st
  ELSE RegisterAll(Register(st, list[i]), list, i + 1)

\* loadWorkflows: its own map, timers bound in the same loop, and a try/catch
\* around the whole loop that logs and returns the map built so far
loadWorkflows(dir, boundTasks) ==
  LET st == RegisterAll([workflows |-> <<>>, tasks |-> boundTasks, threw |-> FALSE], dir, 1)
  IN [st EXCEPT !.threw = FALSE]

\* startMiqroCore: the registration loop on a fresh map; an exception of the
\* loop leaves the function before the server is built
startMiqroCore(staticWorkflows, boundTasks) ==
  RegisterAll([workflows |-> <<>>, tasks |-> boundTasks, threw |-> FALSE], staticWorkflows, 1)

\* startMiqro: loadWorkflows, then startMiqroCore on the values of its map
startMiqro(dir) ==
  LET loaded == loadWorkflows(dir, <<>>)
  IN startMiqroCore(Values(loaded.workflows), loaded.tasks)

----------------------------------------------------------------------------
(* Middleware *)

\* config.middleware: absent, or MiddlewareHandlers that run and await next()
Middlewares == {None, Some(<<"m1", "m2">>)}

\* the configurations an entry point is started with, for a list of definitions
Configs(list) ==
  IF list \in {<<>>, <<WEcho, WSecure>>}
  THEN [middleware : Middlewares]
  ELSE [middleware : {None}]

Reverse(seq) == [i \in 1..Len(seq) |-> seq[Len(seq) + 1 - i]]

\* Variant of the registrations that takes config.middleware from its end
Use_Reversed(cfg) ==
  <<"logger">> \o (IF cfg.middleware # None THEN Reverse(Get(cfg.middleware)) ELSE <<>>)

\* The app.use("*", ...) registrations: logger() first, then config.middleware
\* in its order
Use(cfg) ==
  <<"logger">> \o (IF cfg.middleware # None THEN Get(cfg.middleware) ELSE <<>>)

\* Hono runs the registered middleware in registration order, each handing
\* over with next(), and the matched route handler last
Dispatch(stk, route) == Append(stk, route)

----------------------------------------------------------------------------
(* Requests *)

\* Path ids a caller may post to: the ids definitions use, and a name that
\* Object.prototype defines
ReqIds == {"a", "b"} \cup ProtoKeys

ApiKeyHeaders == {None, Some(""), Some("k1"), Some("zz")}
ApiKeyQueries == {None, Some("k1"), Some("zz")}
Authorizations ==
  {None,
   Some(BearerPrefix \o TokenT),
   Some(BearerPrefix \o TokenT \o <<"x">>),
   Some(BearerPrefix \o <<"u">>)}

MalformedBody == "{ bad_json }"
Bodies == {MalformedBody, "{\"n\":5,\"x\":1}", "{\"n\":-1}"}

Requests ==
  [id : ReqIds, xApiKey : ApiKeyHeaders, apiKeyQuery : ApiKeyQueries,
   authorization : Authorizations, body : Bodies]

\* c.req.json(): the decoded value, or an exception
JsonParse(text) ==
  CASE text = "{\"n\":5,\"x\":1}" -> [ok |-> TRUE, value |-> [n |-> 5, x |-> 1]]
    [] text = "{\"n\":-1}" -> [ok |-> TRUE, value |-> [n |-> -1]]
    [] OTHER -> [ok |-> FALSE]

\* c.req.param(), c.req.query(), c.req.header(): the mappings of the request
Params(req) == [workflowId |-> req.id]
Query(req) == [k \in {q \in {"apiKey"} : req.apiKeyQuery # None} |-> Get(req.apiKeyQuery)]
Headers(req) ==
  [h \in {x \in {"x-api-key"} : req.xApiKey # None}
         \cup {x \in {"authorization"} : req.authorization # None} |->
     IF h = "x-api-key" THEN Get(req.xApiKey) ELSE Get(req.authorization)]

----------------------------------------------------------------------------
(* What a workflow body may do when execute is called *)

Results == {None, Some("done")}

\* execute returns a value, throws, or returns a promise that is still pending
ExecOutcomes ==
  {[kind |-> "return", value |-> v] : v \in Results}
    \cup {[kind |-> "throw"], [kind |-> "pending"]}

\* a pending promise is fulfilled with a value or rejected
SettleOutcomes == {[kind |-> "resolve", value |-> v] : v \in Results} \cup {[kind |-> "reject"]}

----------------------------------------------------------------------------
(* POST /:workflowId *)

\* How the try block of the handler ends: a returned response, an exception,
\* or suspended at `await workflow.execute(...)`.  calls are the execute calls made.
Return(status, body, calls) ==
  [end |-> "return", response |-> [status |-> status, body |-> body], calls |-> calls]
Throw(calls) == [end |-> "throw", calls |-> calls]
Await(calls) == [end |-> "await", calls |-> calls]

NotFoundBody(workflowId) == [error |-> <<"Workflow '", workflowId, "' not found">>]
InvalidApiKeyBody == [error |-> "Unauthorized: Invalid API Key"]
InvalidBearerBody == [error |-> "Unauthorized: Invalid Bearer token"]
ValidationFailedBody(details) == [error |-> "Validation Failed", details |-> details]
CatchAllBody == [error |-> "Invalid JSON payload or internal error"]

\* return c.json({status: "success", message, data: result})
Success(workflowId, result, calls) ==
  Return(200, [status |-> "success",
               message |-> <<"Workflow '", workflowId, "' executed">>,
               data |-> result], calls)

\* Variant of ApiKeyDenied that reads the header only
ApiKeyDenied_HeaderOnly(auth, req) == req.xApiKey # Some(auth.key)

\* the apiKey branch denies
ApiKeyDenied(auth, req) ==
  LET apiKey == OrElse(req.xApiKey, req.apiKeyQuery)
  IN apiKey # Some(auth.key)

\* the bearer branch denies
BearerDenied(auth, req) ==
  LET authHeader == req.authorization
  IN \/ authHeader = None
     \/ Get(authHeader) = <<>>
     \/ ~StartsWith(Get(authHeader), BearerPrefix \o auth.token)

\* Variant of Invoke without the await: a pending promise is answered at once
Invoke_NoAwait(workflow, workflowId, payload, context, eo) ==
  LET calls == <<[wf |-> workflow, payload |-> payload, context |-> context]>>
  IN CASE eo.kind = "return" -> Success(workflowId, eo.value, calls)
       [] eo.kind = "throw" -> Throw(calls)
       [] eo.kind = "pending" -> Success(workflowId, None, calls)

\* Variant of Invoke with one invocation per workflow at a time: a request
\* whose workflow is still inside execute is turned away
Invoke_Exclusive(workflow, workflowId, payload, context, eo) ==
  LET calls == <<[wf |-> workflow, payload |-> payload, context |-> context]>>
  IN IF \E i \in 1..Len(pending) : pending[i].wf = workflow
     THEN Throw(<<>>)
     ELSE CASE eo.kind = "return" -> Success(workflowId, eo.value, calls)
            [] eo.kind = "throw" -> Throw(calls)
            [] eo.kind = "pending" -> Await(calls)

\* const result = await workflow.execute(payload, context); return c.json(...)
Invoke(workflow, workflowId, payload, context, eo) ==
  LET calls == <<[wf |-> workflow, payload |-> payload, context |-> context]>>
  IN CASE eo.kind = "return" -> Success(workflowId, eo.value, calls)
       [] eo.kind = "throw" -> Throw(calls)
       [] eo.kind = "pending" -> Await(calls)

\* Variant of the context construction that passes no headers on
HttpContext_NoHeaders(workflow, req) ==
  [workflowId |-> Get(workflow.config).id,
   name |-> Get(workflow.config).name,
   params |-> Params(req),
   query |-> Query(req),
   headers |-> <<>>]

\* Construct Context
HttpContext(workflow, req) ==
  [workflowId |-> Get(workflow.config).id,
   name |-> Get(workflow.config).name,
   params |-> Params(req),
   query |-> Query(req),
   headers |-> Headers(req)]

\* Variant of Validate that keeps the raw payload after a successful parse
Validate_RawPayload(workflow, req, decoded, eo) ==
  LET schema == Get(workflow.config).schema
      result == SafeParse(Get(schema), decoded)
  IN IF schema # None /\ ~result.success
     THEN Return(400, ValidationFailedBody(result.details), <<>>)
     ELSE Invoke(workflow, req.id, decoded, HttpContext(workflow, req), eo)

\* Variant of Validate that parses with a schema whether or not one is declared
Validate_AlwaysParse(workflow, req, decoded, eo) ==
  LET result == SafeParse(SchemaPos, decoded)
  IN IF ~result.success
     THEN Return(400, ValidationFailedBody(result.details), <<>>)
     ELSE Invoke(workflow, req.id, result.data, HttpContext(workflow, req), eo)

\* Zod validation if a schema is provided, then context and execute
Validate(workflow, req, decoded, eo) ==
  LET schema == Get(workflow.config).schema
      result == SafeParse(Get(schema), decoded)
  IN IF schema # None /\ ~result.success
     THEN Return(400, ValidationFailedBody(result.details), <<>>)
     ELSE Invoke(workflow, req.id,
                 IF schema # None THEN result.data ELSE decoded,
                 HttpContext(workflow, req), eo)

\* Variant of Decode that takes an undecodable body as an empty object
Decode_Lenient(workflow, req, eo) ==
  LET parsed == JsonParse(req.body)
  IN Validate(workflow, req, IF parsed.ok THEN parsed.value ELSE <<>>, eo)

\* let payload = await c.req.json()
Decode(workflow, req, eo) ==
  LET parsed == JsonParse(req.body)
  IN IF ~parsed.ok THEN Throw(<<>>) ELSE Validate(workflow, req, parsed.value, eo)

\* Variant of the auth check that wants some credential for auth none too
Authenticate_CredentialWanted(workflow, req, eo) ==
  LET auth == Get(workflow.config).auth
  IN IF auth.type = "apiKey" /\ ApiKeyDenied(auth, req)
     THEN Return(401, InvalidApiKeyBody, <<>>)
     ELSE IF \/ auth.type = "bearer" /\ BearerDenied(auth, req)
             \/ auth.type = "none" /\ req.authorization = None /\ req.xApiKey = None
     THEN Return(401, InvalidBearerBody, <<>>)
     ELSE Decode(workflow, req, eo)

\* Basic auth check based on the workflow config
Authenticate(workflow, req, eo) ==
  LET auth == Get(workflow.config).auth
  IN IF auth.type = "apiKey" /\ ApiKeyDenied(auth, req)
     THEN Return(401, InvalidApiKeyBody, <<>>)
     ELSE IF auth.type = "bearer" /\ BearerDenied(auth, req)
     THEN Return(401, InvalidBearerBody, <<>>)
     ELSE Decode(workflow, req, eo)

\* The try block: resolve the workflow, then the steps above.  An inherited
\* property is truthy and has no config, so reading config.auth throws.
TryBlock(reg, req, eo) ==
  LET found == Lookup(reg, req.id)
  IN CASE found.kind = "undefined" -> Return(404, NotFoundBody(req.id), <<>>)
       [] found.kind = "inherited" -> Throw(<<>>)
       [] found.kind = "own" -> Authenticate(found.wf, req, eo)

\* Variant of Catch that logs and rethrows
Catch_Rethrow(calls) ==
  [responses |-> <<>>, calls |-> calls, logged |-> TRUE, awaiting |-> FALSE,
   escaped |-> TRUE]

\* Variant of Catch that answers without logging
Catch_Silent(calls) ==
  [responses |-> <<[status |-> 400, body |-> CatchAllBody]>>, calls |-> calls,
   logged |-> FALSE, awaiting |-> FALSE, escaped |-> FALSE]

\* Variant of Catch that answers 200
Catch_AnswersOk(calls) ==
  [responses |-> <<[status |-> 200, body |-> CatchAllBody]>>, calls |-> calls,
   logged |-> TRUE, awaiting |-> FALSE, escaped |-> FALSE]

\* The catch block: log and answer 400; nothing is rethrown
Catch(calls) ==
  [responses |-> <<[status |-> 400, body |-> CatchAllBody]>>, calls |-> calls,
   logged |-> TRUE, awaiting |-> FALSE, escaped |-> FALSE]

\* How a run of the handler ends
Finish(r) ==
  CASE r.end = "throw" -> Catch(r.calls)
    [] r.end = "return" ->
         [responses |-> <<r.response>>, calls |-> r.calls, logged |-> FALSE,
          awaiting |-> FALSE, escaped |-> FALSE]
    [] r.end = "await" ->
         [responses |-> <<>>, calls |-> r.calls, logged |-> FALSE,
          awaiting |-> TRUE, escaped |-> FALSE]

\* app.post("/:workflowId", ...) up to its response or its suspension
Handle(reg, req, eo) == Finish(TryBlock(reg, req, eo))

\* The handler after the awaited promise settled
Resume(workflowId, so) ==
  IF so.kind = "resolve"
  THEN Finish(Success(workflowId, so.value, <<>>))
  ELSE Finish(Throw(<<>>))

NoRun == [kind |-> "none"]

----------------------------------------------------------------------------
(* The CLI's init command *)

ConfigPath == "miqro.config.ts"
WorkflowsPath == "workflows"
SampleWorkflowPath == "workflows/sample.ts"
PkgPath == "package.json"
TsconfigPath == "tsconfig.json"
Paths == {ConfigPath, WorkflowsPath, SampleWorkflowPath, PkgPath, TsconfigPath}

\* A path is absent, a directory, or a file with a content: one of the four
\* texts init writes, or "other"
FreshDir == [p \in Paths |-> "absent"]

\* The working directories init may be run in: an entry exists under
\* workflows only when workflows is a directory
Dirs ==
  {d \in [Paths -> {"absent", "dir", "other"}] :
     d[SampleWorkflowPath] # "absent" => d[WorkflowsPath] = "dir"}

existsSync(d, p) == d[p] # "absent"

\* fs/promises writeFile on st = [fs, threw]: rejects when the parent is not a
\* directory or the path is one
writeFile(st, p, content) ==
  IF \/ p = SampleWorkflowPath /\ st.fs[WorkflowsPath] # "dir"
     \/ st.fs[p] = "dir"
  THEN [st EXCEPT !.threw = TRUE]
  ELSE [st EXCEPT !.fs[p] = content]

mkdir(st, p) == [st EXCEPT !.fs[p] = "dir"]

\* `if (!existsSync(path)) await writeFile(path, content)`; nothing runs after
\* a rejected await
WriteIfMissing(st, p, content) ==
  IF st.threw \/ existsSync(st.fs, p) THEN st ELSE writeFile(st, p, content)

\* main() for the command init in directory d, with the exit code: 1 from the
\* existence check or from main().catch, 0 at the end of the branch
init(d) ==
  IF existsSync(d, ConfigPath)
  THEN [fs |-> d, code |-> 1]
  ELSE LET s1 == writeFile([fs |-> d, threw |-> FALSE], ConfigPath, "defaultConfig")
           s2 == IF s1.threw \/ existsSync(s1.fs, WorkflowsPath)
                 THEN s1 ELSE mkdir(s1, WorkflowsPath)
           s3 == WriteIfMissing(s2, SampleWorkflowPath, "sampleWorkflow")
           s4 == WriteIfMissing(s3, PkgPath, "pkgContent")
           s5 == WriteIfMissing(s4, TsconfigPath, "tsconfigContent")
       IN [fs |-> s5.fs, code |-> IF s5.threw THEN 1 ELSE 0]

----------------------------------------------------------------------------
(* Initial states *)

Boot ==
  /\ pc = "boot"
  /\ entry = "none"
  /\ supplied = <<>>
  /\ config = [middleware |-> None]
  /\ stack = <<>>
  /\ workflows = <<>>
  /\ tasks = <<>>
  /\ pending = <<>>
  /\ last = NoRun
  /\ alive = TRUE

Init ==
  /\ Boot
  /\ fs = FreshDir
  /\ inits = <<>>

CliInit ==
  /\ Boot
  /\ fs \in Dirs
  /\ inits = <<>>

Started(e, cfg, list, st) ==
  /\ pc = "boot"
  /\ pc' = IF st.threw THEN "failed" ELSE "up"
  /\ entry' = e
  /\ supplied' = list
  /\ config' = cfg
  /\ stack' = IF st.threw THEN <<>> ELSE Use(cfg)
  /\ workflows' = st.workflows
  /\ tasks' = st.tasks
  /\ last' = [kind |-> "start", threw |-> st.threw]
  /\ UNCHANGED <<pending, alive, fs, inits>>

StartCore ==
  \E list \in Supplied : \E cfg \in Configs(list) :
    Started("core", cfg, list, startMiqroCore(list, <<>>))

StartDir ==
  \E dir \in Supplied : \E cfg \in Configs(dir) :
    Started("dir", cfg, dir, startMiqro(dir))

----------------------------------------------------------------------------
(* The cron callbacks *)

\* what execute does when a callback calls it; a returned value is dropped
CronOutcomes == {"return", "throw", "pending"}

\* The callback passed to cron.schedule, for the definition workflow it closes over
CronCall(workflow, now) ==
  [wf |-> workflow,
   payload |-> [source |-> "cron", timestamp |-> now],
   context |-> [workflowId |-> Get(workflow.config).id,
                name |-> Get(workflow.config).name,
                params |-> <<>>, query |-> <<>>, headers |-> <<>>]]

\* Variant of the callback that applies the HTTP gate: it calls execute only
\* for auth none and a payload the schema accepts
Callback_Gated(fire, task, now, eo, crash) ==
  LET cfg == Get(task.wf.config)
      call == CronCall(task.wf, now)
  IN IF \/ cfg.auth.type # "none"
        \/ cfg.schema # None /\ ~SafeParse(Get(cfg.schema), call.payload).success
     THEN fire
     ELSE [calls |-> Append(fire.calls, call),
           escaped |-> IF eo = "throw" THEN fire.escaped + 1 ELSE fire.escaped,
           started |-> IF eo = "pending"
                       THEN Append(fire.started, [kind |-> "cron",
                                                  id |-> cfg.id, wf |-> task.wf])
                       ELSE fire.started,
           dead |-> eo = "throw" /\ crash]

\* The callback has no try/catch and does not await: an exception of execute
\* leaves the callback towards node-cron, a pending promise is dropped.
\* fire = [calls, escaped, started, dead]
Callback(fire, task, now, eo, crash) ==
  [calls |-> Append(fire.calls, CronCall(task.wf, now)),
   escaped |-> IF eo = "throw" THEN fire.escaped + 1 ELSE fire.escaped,
   started |-> IF eo = "pending"
               THEN Append(fire.started, [kind |-> "cron",
                                          id |-> Get(task.wf.config).id, wf |-> task.wf])
               ELSE fire.started,
   dead |-> eo = "throw" /\ crash]

\* One matching minute: node-cron runs the bound callbacks in binding order,
\* unless an escaped exception ended the process
RECURSIVE FireAll(_, _, _, _, _, _)
FireAll(fire, bound, i, now, eos, crash) ==
  IF i > Len(bound) \/ fire.dead THEN fire
  ELSE FireAll(Callback(fire, bound[i], now, eos[i], crash), bound, i + 1, now, eos, crash)

Remove(seq, i) == [j \in 1..(Len(seq) - 1) |-> IF j < i THEN seq[j] ELSE seq[j + 1]]

----------------------------------------------------------------------------
(* Actions *)

\* `last` holds the trace of one run at a time; a run is observed only when
\* no trace is held.  No handler or callback reads `last`.
Idle == alive /\ last.kind \in {"none", "start"}

\* the trace has been read
Forget ==
  /\ last.kind \notin {"none", "start"}
  /\ last' = NoRun
  /\ UNCHANGED <<pc, entry, supplied, config, stack, workflows, tasks, pending, alive, fs, inits>>

\* A caller posts req; the workflow body, if reached, behaves as eo (kept in
\* the trace as exec when execute was called)
Post ==
  \E req \in Requests, eo \in ExecOutcomes :
    LET r == Handle(workflows, req, eo)
    IN /\ pc = "up" /\ Idle
       /\ r.awaiting => Len(pending) < MaxPending
       /\ last' = [kind |-> "post", req |-> req, events |-> Dispatch(stack, "post"),
                   exec |-> IF r.calls = <<>> THEN None ELSE Some(eo), run |-> r]
       /\ pending' = IF r.awaiting
                     THEN Append(pending, [kind |-> "http", id |-> req.id,
                                           wf |-> r.calls[1].wf])
                     ELSE pending
       /\ UNCHANGED <<pc, entry, supplied, config, stack, workflows, tasks, alive, fs, inits>>

\* app.get("/health", ...): the count of the registry's keys; uptime is
\* process.uptime()
Health ==
  \E uptime \in 1..MaxClock :
    /\ pc = "up" /\ Idle
    /\ last' = [kind |-> "health", events |-> Dispatch(stack, "health"),
                status |-> 200,
                body |-> [status |-> "ok", uptime |-> uptime,
                          loadedWorkflows |-> KeyCount(workflows)]]
    /\ UNCHANGED <<pc, entry, supplied, config, stack, workflows, tasks, pending, alive,
                   fs, inits>>

\* The promise an HTTP invocation awaits settles, and the handler finishes
SettleHttp ==
  \E i \in 1..Len(pending), so \in SettleOutcomes :
    /\ pc = "up" /\ Idle
    /\ pending[i].kind = "http"
    /\ last' = [kind |-> "settled", id |-> pending[i].id, wf |-> pending[i].wf,
                outcome |-> so, run |-> Resume(pending[i].id, so)]
    /\ pending' = Remove(pending, i)
    /\ UNCHANGED <<pc, entry, supplied, config, stack, workflows, tasks, alive, fs, inits>>

\* A minute the bound expressions match.  Timers bound before a failed
\* startup stay bound.
Tick ==
  \E now \in 1..MaxClock, eos \in [1..Len(tasks) -> CronOutcomes], crash \in BOOLEAN :
    LET fire == FireAll([calls |-> <<>>, escaped |-> 0, started |-> <<>>, dead |-> FALSE],
                        tasks, 1, now, eos, crash)
    IN /\ pc # "boot" /\ Idle
       /\ tasks # <<>>
       /\ Len(pending) + Len(fire.started) <= MaxPending
       /\ last' = [kind |-> "tick", now |-> now, calls |-> fire.calls,
                   escaped |-> fire.escaped]
       /\ pending' = pending \o fire.started
       /\ alive' = ~fire.dead
       /\ UNCHANGED <<pc, entry, supplied, config, stack, workflows, tasks, fs, inits>>

\* The dropped promise of a cron invocation settles; nothing handles a
\* rejection, which reaches the process as an unhandled rejection
SettleCron ==
  \E i \in 1..Len(pending), rejected \in BOOLEAN, crash \in BOOLEAN :
    /\ pc # "boot" /\ Idle
    /\ pending[i].kind = "cron"
    /\ last' = [kind |-> "cronSettled", wf |-> pending[i].wf,
                escaped |-> IF rejected THEN 1 ELSE 0]
    /\ pending' = Remove(pending, i)
    /\ alive' = ~(rejected /\ crash)
    /\ UNCHANGED <<pc, entry, supplied, config, stack, workflows, tasks, fs, inits>>

Next == StartCore \/ StartDir \/ Post \/ Health \/ SettleHttp \/ Tick \/ SettleCron \/ Forget

Spec == Init /\ [][Next]_vars

\* `miqro init` is run in the working directory
RunInit ==
  LET r == init(fs)
  IN /\ Len(inits) < MaxInits
     /\ fs' = r.fs
     /\ inits' = Append(inits, [before |-> fs, code |-> r.code])
     /\ UNCHANGED coreVars

CliNext == RunInit

CliSpec == CliInit /\ [][CliNext]_vars

----------------------------------------------------------------------------
(* Vocabulary of the properties *)

IsPost == last.kind = "post"
IsSettled == last.kind = "settled"

\* the registry entry a posted request names, when it is an own key
Registered(req) == req.id \in Keys(workflows)
Target(req) == workflows[CHOOSE i \in 1..Len(workflows) : workflows[i].key = req.id].wf
TargetConfig(req) == Get(Target(req).config)

Statuses(run) == {run.responses[i].status : i \in 1..Len(run.responses)}
Answered(run, status) == Len(run.responses) = 1 /\ run.responses[1].status = status

\* the generic answer of the catch-all terminal
GenericError == [status |-> 400, body |-> [error |-> "Invalid JSON payload or internal error"]]

\* The allow rule of the auth evaluator: none always; apiKey on the candidate
\* key, header first and query second; bearer on the Authorization header
\* beginning with "Bearer <token>"
Candidate(req) ==
  IF req.xApiKey # None /\ req.xApiKey # Some("") THEN req.xApiKey ELSE req.apiKeyQuery

Allowed(auth, req) ==
  CASE auth.type = "none" -> TRUE
    [] auth.type = "apiKey" -> Candidate(req) = Some(auth.key)
    [] auth.type = "bearer" ->
         /\ req.authorization # None
         /\ Len(Get(req.authorization)) >= Len(BearerPrefix) + Len(auth.token)
         /\ \A i \in 1..(Len(BearerPrefix) + Len(auth.token)) :
              Get(req.authorization)[i] = (BearerPrefix \o auth.token)[i]

Decodes(req) == req.body # MalformedBody

----------------------------------------------------------------------------
(* Properties *)

\* C1: for a workflow declaring bearer(T), a POST is let past authentication
\* only when its Authorization header is exactly "Bearer T"; any other value,
\* also one that only begins with "Bearer T", or no header is answered 401
\* and execute is not called.
C1_BearerExactOnly ==
  (IsPost /\ Registered(last.req) /\ TargetConfig(last.req).auth.type = "bearer") =>
    IF last.req.authorization = Some(BearerPrefix \o TargetConfig(last.req).auth.token)
    THEN 401 \notin Statuses(last.run)
    ELSE Answered(last.run, 401) /\ last.run.calls = <<>>

\* C2 as stated: for a workflow declaring apiKey(K), a POST whose x-api-key
\* header equals K passes authentication, and one whose header has another
\* value or is absent is answered 401 without execute being called.
C2_HeaderAloneDecides ==
  (IsPost /\ Registered(last.req) /\ TargetConfig(last.req).auth.type = "apiKey") =>
    IF last.req.xApiKey = Some(TargetConfig(last.req).auth.key)
    THEN 401 \notin Statuses(last.run)
    ELSE Answered(last.run, 401) /\ last.run.calls = <<>>

\* C2 as amended: for a workflow declaring apiKey(K), a POST with a non-empty
\* x-api-key header passes authentication iff the header equals K; a POST
\* whose header is absent or empty passes iff its apiKey query parameter
\* equals K; a POST that does not pass is answered 401 without execute
\* being called.
C2_ApiKeyHeaderThenQuery ==
  (IsPost /\ Registered(last.req) /\ TargetConfig(last.req).auth.type = "apiKey") =>
    LET key == TargetConfig(last.req).auth.key
        passes == IF last.req.xApiKey \notin {None, Some("")}
                  THEN last.req.xApiKey = Some(key)
                  ELSE last.req.apiKeyQuery = Some(key)
    IN IF passes
       THEN 401 \notin Statuses(last.run)
       ELSE Answered(last.run, 401) /\ last.run.calls = <<>>

\* C2 witness: a request without the header but with the matching query
\* parameter was let through to a 200
C2_Witness ==
  /\ IsPost /\ Registered(last.req)
  /\ TargetConfig(last.req).auth.type = "apiKey"
  /\ last.req.xApiKey = None
  /\ last.req.apiKeyQuery = Some(TargetConfig(last.req).auth.key)
  /\ Answered(last.run, 200)

\* C3 as stated: a POST to a registered workflow whose body is not
\* well-formed JSON is answered 400 and execute is never called, whatever the
\* auth variant, the credentials and the schema.
C3_MalformedAlways400 ==
  (IsPost /\ Registered(last.req) /\ ~Decodes(last.req)) =>
    Answered(last.run, 400) /\ last.run.calls = <<>>

\* C3 as amended: a POST to a registered workflow whose body is not
\* well-formed JSON never calls execute; it is answered the generic 400 when
\* its credentials pass the workflow's authentication and 401 when they do
\* not, whatever the auth variant and the schema.
C3_MalformedAfterAuth ==
  (IsPost /\ Registered(last.req) /\ ~Decodes(last.req)) =>
    /\ last.run.calls = <<>>
    /\ IF Allowed(TargetConfig(last.req).auth, last.req)
       THEN last.run.responses = <<GenericError>>
       ELSE Answered(last.run, 401)

\* C3 witness: a malformed body sent with valid credentials to a workflow
\* declaring both auth and a schema was answered 400
C3_Witness ==
  /\ IsPost /\ Registered(last.req) /\ ~Decodes(last.req)
  /\ TargetConfig(last.req).auth.type = "apiKey"
  /\ TargetConfig(last.req).schema # None
  /\ Allowed(TargetConfig(last.req).auth, last.req)
  /\ Answered(last.run, 400)

\* the calls a tick made to the execute of definition wf
TickCalls(wf) == {j \in 1..Len(last.calls) : last.calls[j].wf = wf}

HasSchedule(wf) ==
  /\ wf.config # None
  /\ Get(wf.config).schedule \notin {None, Some("")}

\* C4: after startup through either entry point, each tick of a scheduled
\* workflow's cron expression calls execute of that workflow exactly once,
\* with a payload whose source is "cron" and a context carrying the
\* definition's id and name and empty params, query and headers (stated for
\* the ticks in which no execute raised a fault).
C4_OneCallPerTick ==
  (pc = "up" /\ last.kind = "tick" /\ last.escaped = 0) =>
    \A i \in 1..Len(workflows) :
      LET wf == workflows[i].wf
      IN HasSchedule(wf) =>
           /\ Cardinality(TickCalls(wf)) = 1
           /\ \A j \in TickCalls(wf) :
                /\ last.calls[j].payload.source = "cron"
                /\ last.calls[j].context =
                     [workflowId |-> Get(wf.config).id, name |-> Get(wf.config).name,
                      params |-> <<>>, query |-> <<>>, headers |-> <<>>]

\* C5: a fault raised by execute during a scheduled firing, thrown or as a
\* rejected promise, is caught inside the timer callback: none escapes to the
\* timer collaborator or the process, and the process keeps firing.
C5_CronFaultsCaught ==
  /\ last.kind \in {"tick", "cronSettled"} => last.escaped = 0
  /\ alive

\* C6: a workflow whose cron expression the timer collaborator rejects does
\* not stop startup: the entry point still returns a server, and every other
\* supplied workflow with an id is registered.
C6_BadCronDoesNotStopStartup ==
  pc # "boot" =>
    /\ pc = "up"
    /\ \A i \in 1..Len(supplied) :
         IdOf(supplied[i]) \notin {None, Some("")} =>
           Get(IdOf(supplied[i])) \in Keys(workflows)

\* C7: a POST to an id that is not a key of the registry is answered 404
\* with an error body and calls no execute, whatever it carries.
C7_UnknownIdIs404 ==
  (IsPost /\ ~Registered(last.req)) =>
    /\ Answered(last.run, 404)
    /\ "error" \in DOMAIN last.run.responses[1].body
    /\ last.run.calls = <<>>

\* the request reached the validation step: registered, allowed, decoded
ReachesValidation(req) ==
  /\ Registered(req)
  /\ Allowed(TargetConfig(req).auth, req)
  /\ Decodes(req)

\* what the schema of the request's target says of its decoded body
Parsed(req) == SafeParse(Get(TargetConfig(req).schema), JsonParse(req.body).value)

SuccessBody(workflowId, data) ==
  [status |-> "success", message |-> <<"Workflow '", workflowId, "' executed">>,
   data |-> data]

\* C8 as stated: for a workflow declaring a schema, a decoded payload the
\* schema rejects yields 400 "Validation Failed" with the validator's details
\* and execute is never called; a payload it accepts reaches execute as the
\* normalized value and the request yields 200.
C8_AcceptedAlways200 ==
  /\ (IsPost /\ ReachesValidation(last.req) /\ TargetConfig(last.req).schema # None) =>
       IF Parsed(last.req).success
       THEN /\ Len(last.run.calls) = 1
            /\ last.run.calls[1].payload = Parsed(last.req).data
            /\ Statuses(last.run) \subseteq {200}
       ELSE /\ last.run.responses =
                 <<[status |-> 400,
                    body |-> [error |-> "Validation Failed",
                              details |-> Parsed(last.req).details]]>>
            /\ last.run.calls = <<>>
  /\ (IsSettled /\ Get(last.wf.config).schema # None) => Answered(last.run, 200)

\* C8 as amended: for a workflow declaring a schema, a decoded payload the
\* schema rejects yields 400 "Validation Failed" with the validator's details
\* and execute is never called; a payload it accepts reaches execute as the
\* normalized value, not the raw decoded one, and the request yields 200 when
\* execute completes without a fault and the generic 400 when execute throws
\* or its promise rejects.
C8_SchemaGate ==
  /\ (IsPost /\ ReachesValidation(last.req) /\ TargetConfig(last.req).schema # None) =>
       IF Parsed(last.req).success
       THEN /\ Len(last.run.calls) = 1
            /\ last.run.calls[1].payload = Parsed(last.req).data
            /\ last.exec # None
            /\ Get(last.exec).kind = "return" => Answered(last.run, 200)
            /\ Get(last.exec).kind = "throw" => last.run.responses = <<GenericError>>
            /\ Get(last.exec).kind = "pending" => last.run.responses = <<>>
       ELSE /\ last.run.responses =
                 <<[status |-> 400,
                    body |-> [error |-> "Validation Failed",
                              details |-> Parsed(last.req).details]]>>
            /\ last.run.calls = <<>>
  /\ (IsSettled /\ Get(last.wf.config).schema # None) =>
       IF last.outcome.kind = "resolve"
       THEN Answered(last.run, 200)
       ELSE last.run.responses = <<GenericError>>

\* C8 witness: a payload with an extra key was accepted, execute got the
\* normalized value without that key, and the answer was 200
C8_Witness ==
  /\ IsPost /\ ReachesValidation(last.req)
  /\ TargetConfig(last.req).schema # None
  /\ Parsed(last.req).success
  /\ Parsed(last.req).data # JsonParse(last.req.body).value
  /\ Len(last.run.calls) = 1
  /\ last.run.calls[1].payload = Parsed(last.req).data
  /\ Answered(last.run, 200)

\* C9: when execute throws or its promise rejects during an HTTP invocation
\* the caller gets the same generic 400 as for a body that fails to decode,
\* and no fault leaves the POST handler.
C9_ExecuteFaultIsGeneric400 ==
  /\ (IsPost /\ last.exec # None /\ Get(last.exec).kind = "throw") =>
       last.run.responses = <<GenericError>>
  /\ (IsSettled /\ last.outcome.kind = "reject") =>
       last.run.responses = <<GenericError>>
  /\ (IsPost /\ Registered(last.req) /\ Allowed(TargetConfig(last.req).auth, last.req)
        /\ ~Decodes(last.req)) =>
       last.run.responses = <<GenericError>>
  /\ (IsPost \/ IsSettled) => ~last.run.escaped

\* C9 witness: the promise of an invocation rejected and the caller got 400
C9_Witness ==
  /\ IsSettled
  /\ last.outcome.kind = "reject"
  /\ Answered(last.run, 400)

\* the request passes every step before execute
ReachesExecute(req) ==
  /\ ReachesValidation(req)
  /\ TargetConfig(req).schema # None => Parsed(req).success

\* C10: a successful HTTP invocation (found, allowed, decoded, schema passed
\* or absent, execute completed without fault) calls execute exactly once,
\* awaits it, and answers 200 with status "success", a message and data equal
\* to what execute returned, which may be undefined.
C10_SuccessEnvelope ==
  /\ (IsPost /\ ReachesExecute(last.req)) =>
       /\ Len(last.run.calls) = 1
       /\ last.run.calls[1].wf = Target(last.req)
       /\ last.exec # None
       /\ Get(last.exec).kind = "return" =>
            last.run.responses =
              <<[status |-> 200, body |-> SuccessBody(last.req.id, Get(last.exec).value)]>>
       /\ Get(last.exec).kind = "pending" =>
            /\ last.run.responses = <<>>
            /\ \E i \in 1..Len(pending) : pending[i].kind = "http" /\ pending[i].id = last.req.id
  /\ (IsSettled /\ last.outcome.kind = "resolve") =>
       /\ last.run.responses =
            <<[status |-> 200, body |-> SuccessBody(last.id, last.outcome.value)]>>
       /\ last.run.calls = <<>>

\* C10 witness: an awaited promise was fulfilled with a value and the caller
\* got it as data of a 200
C10_Witness ==
  /\ IsSettled
  /\ last.outcome.kind = "resolve"
  /\ last.outcome.value # None
  /\ Answered(last.run, 200)
  /\ last.run.responses[1].body.data = last.outcome.value

----------------------------------------------------------------------------
(* Health *)

IsHealth == last.kind = "health"

\* what the entry point that was used builds from the supplied definitions
AtStartup == IF entry = "core" THEN startMiqroCore(supplied, <<>>) ELSE startMiqro(supplied)

\* the number of supplied definitions the registry reg holds
HeldCount(reg) ==
  Cardinality({i \in 1..Len(supplied) : \E j \in 1..Len(reg) : reg[j].wf = supplied[i]})

\* C11: every GET /health is answered 200 with loadedWorkflows equal to the
\* number of supplied definitions held in the registry, whether or not they
\* declare a schedule; the registry is the one built at startup whatever
\* requests and firings happened since, so every health request reports the
\* same value.
C11_HealthCountsRegistry ==
  /\ pc = "up" => workflows = AtStartup.workflows
  /\ IsHealth =>
       /\ last.status = 200
       /\ last.body.status = "ok"
       /\ last.body.loadedWorkflows = HeldCount(AtStartup.workflows)

\* C11 witness: a health answer reporting two workflows, both scheduled and
\* with an invocation of one still running
C11_Witness ==
  /\ IsHealth
  /\ last.body.loadedWorkflows = 2
  /\ Len(tasks) >= 2
  /\ pending # <<>>

----------------------------------------------------------------------------
(* The execution context *)

\* the header names and values a request carries
SentHeaders(req) ==
  {<<"x-api-key", Get(req.xApiKey)>> : x \in {r \in {req} : r.xApiKey # None}}
    \cup {<<"authorization", Get(req.authorization)>> : x \in {r \in {req} : r.authorization # None}}

\* C12: on an HTTP invocation the context handed to execute has workflowId
\* equal to the id of the path, name equal to the definition's name, headers
\* holding every header the caller sent with its value, params equal to the
\* matched route parameter and query equal to the query string of the request.
C12_HttpContextFromRequest ==
  (IsPost /\ last.run.calls # <<>>) =>
    LET ctx == last.run.calls[1].context
        req == last.req
    IN /\ ctx.workflowId = Some(req.id)
       /\ ctx.name = TargetConfig(req).name
       /\ \A h \in SentHeaders(req) : h[1] \in DOMAIN ctx.headers /\ ctx.headers[h[1]] = h[2]
       /\ DOMAIN ctx.params = {"workflowId"} /\ ctx.params["workflowId"] = req.id
       /\ IF req.apiKeyQuery = None
          THEN DOMAIN ctx.query = {}
          ELSE DOMAIN ctx.query = {"apiKey"} /\ ctx.query["apiKey"] = Get(req.apiKeyQuery)

\* C12 witness: execute was called for a request that carried both headers and
\* the query parameter
C12_Witness ==
  /\ IsPost
  /\ last.run.calls # <<>>
  /\ last.req.xApiKey # None
  /\ last.req.authorization # None
  /\ last.req.apiKeyQuery # None
  /\ DOMAIN last.run.calls[1].context.headers = {"x-api-key", "authorization"}

----------------------------------------------------------------------------
(* The apiKey candidate *)

IsApiKeyPost ==
  IsPost /\ Registered(last.req) /\ TargetConfig(last.req).auth.type = "apiKey"

\* the request was let past the authentication step
PassedAuth(run) == 401 \notin Statuses(run)

\* C13 as stated: for a workflow declaring apiKey(K) the candidate is the
\* x-api-key header whenever the request supplies one, the apiKey query
\* parameter only otherwise, and the request is allowed iff the candidate
\* equals K.
C13_SuppliedHeaderIsCandidate ==
  IsApiKeyPost =>
    LET candidate == IF last.req.xApiKey # None THEN last.req.xApiKey
                     ELSE last.req.apiKeyQuery
    IN PassedAuth(last.run) <=> candidate = Some(TargetConfig(last.req).auth.key)

\* C13 as amended: the candidate is the x-api-key header when the request
\* supplies a non-empty one, the apiKey query parameter otherwise; the
\* request is allowed iff the candidate equals K, and a request with a
\* non-empty header other than K is denied with 401, execute not called, even
\* when its query parameter equals K.
C13_NonEmptyHeaderIsCandidate ==
  IsApiKeyPost =>
    LET K == TargetConfig(last.req).auth.key
        header == last.req.xApiKey
        candidate == IF header # None /\ Get(header) # "" THEN header
                     ELSE last.req.apiKeyQuery
    IN /\ PassedAuth(last.run) <=> candidate = Some(K)
       /\ (header \notin {None, Some(""), Some(K)} /\ last.req.apiKeyQuery = Some(K)) =>
            Answered(last.run, 401) /\ last.run.calls = <<>>

\* C13 witness: a request with a non-matching header and the matching query
\* parameter was denied
C13_Witness ==
  /\ IsApiKeyPost
  /\ last.req.xApiKey = Some("zz")
  /\ last.req.apiKeyQuery = Some(TargetConfig(last.req).auth.key)
  /\ Answered(last.run, 401)
  /\ last.run.calls = <<>>

----------------------------------------------------------------------------
(* Auth none *)

IsNonePost ==
  IsPost /\ Registered(last.req) /\ TargetConfig(last.req).auth.type = "none"

\* C14: a POST to a workflow declaring auth none is never answered 401,
\* whatever credentials it carries or omits; what happens is decided by the
\* later steps: an undecodable body gets the generic 400, a body the schema
\* rejects gets 400 without execute, and every other request calls execute
\* once.
C14_NoneNever401 ==
  IsNonePost =>
    LET req == last.req
        schema == TargetConfig(req).schema
    IN /\ 401 \notin Statuses(last.run)
       /\ IF ~Decodes(req)
          THEN last.run.responses = <<GenericError>> /\ last.run.calls = <<>>
          ELSE IF schema # None /\ ~Parsed(req).success
          THEN Answered(last.run, 400) /\ last.run.calls = <<>>
          ELSE Len(last.run.calls) = 1 /\ Statuses(last.run) \subseteq {200, 400}

\* C14 witness: a request carrying a wrong key and a wrong token, and one
\* carrying no credential at all, each to a workflow with auth none, got 200
C14_Witness ==
  /\ IsNonePost
  /\ \/ last.req.xApiKey = Some("zz") /\ last.req.apiKeyQuery = Some("zz")
        /\ last.req.authorization = Some(BearerPrefix \o <<"u">>)
     \/ last.req.xApiKey = None /\ last.req.apiKeyQuery = None
        /\ last.req.authorization = None
  /\ Answered(last.run, 200)

----------------------------------------------------------------------------
(* Scheduled firings and the HTTP gate *)

IsTick == last.kind = "tick"

\* C15: a scheduled firing calls execute without authentication and without
\* schema validation: every callback that runs calls execute of the workflow
\* it was bound for, whatever auth the workflow declares, and hands it the
\* synthetic cron payload as built, whether or not the workflow's schema
\* would accept it; all bound callbacks run as long as the process lives.
C15_CronSkipsAuthAndSchema ==
  IsTick =>
    /\ Len(last.calls) <= Len(tasks)
    /\ alive => Len(last.calls) = Len(tasks)
    /\ \A j \in 1..Len(last.calls) :
         /\ last.calls[j].wf = tasks[j].wf
         /\ last.calls[j].payload = [source |-> "cron", timestamp |-> last.now]

\* C15 witness: one firing called execute of a workflow declaring apiKey auth
\* and a schema that rejects the cron payload, and of one declaring bearer auth
C15_Witness ==
  /\ IsTick
  /\ \E j \in 1..Len(last.calls) :
       LET cfg == Get(last.calls[j].wf.config)
       IN /\ cfg.auth.type = "apiKey"
          /\ cfg.schema # None
          /\ ~SafeParse(Get(cfg.schema), last.calls[j].payload).success
  /\ \E j \in 1..Len(last.calls) : Get(last.calls[j].wf.config).auth.type = "bearer"

----------------------------------------------------------------------------
(* Duplicate ids *)

\* the supplied definitions declaring id
WithId(id) == {i \in 1..Len(supplied) : IdOf(supplied[i]) = Some(id)}

\* the last supplied definition declaring id
LastSupplied(id) == supplied[CHOOSE i \in WithId(id) : \A j \in WithId(id) : j <= i]

\* C16: after startup the registry holds, under each id, exactly the last
\* supplied definition declaring that id, and a POST to the id calls that
\* definition's execute; in every reachable state each entry's config.id
\* equals the key it is stored under, and no key occurs twice.
C16_LastLoadedWins ==
  /\ \A i \in 1..Len(workflows) :
       /\ IdOf(workflows[i].wf) = Some(workflows[i].key)
       /\ \A j \in 1..Len(workflows) : workflows[j].key = workflows[i].key => j = i
  /\ pc = "up" =>
       /\ \A i \in 1..Len(workflows) : workflows[i].wf = LastSupplied(workflows[i].key)
       /\ \A i \in 1..Len(supplied) :
            Truthy(IdOf(supplied[i])) => Get(IdOf(supplied[i])) \in Keys(workflows)
  /\ (IsPost /\ last.run.calls # <<>>) =>
       last.run.calls[1].wf = LastSupplied(last.req.id)

\* C16 witness: two definitions were supplied under one id, the second one
\* with a schema, and a POST to the id was validated and executed by the second
C16_Witness ==
  /\ IsPost
  /\ Cardinality(WithId(last.req.id)) = 2
  /\ Len(last.run.calls) = 1
  /\ last.run.calls[1].wf = supplied[2]
  /\ supplied[1] # supplied[2]
  /\ Get(supplied[2].config).schema # None
  /\ Get(supplied[1].config).schema = None

----------------------------------------------------------------------------
(* Middleware order *)

\* the middleware declared in the configuration
Declared == IF config.middleware = None THEN <<>> ELSE Get(config.middleware)

IsUserEvent(e) == e # "logger"

\* C17: on every request, a health request and a webhook request alike, the
\* middleware of the configuration runs in the order it was declared, and
\* the route handler runs after all of it.
C17_MiddlewareBeforeRoutes ==
  /\ IsPost => SelectSeq(last.events, IsUserEvent) = Declared \o <<"post">>
  /\ IsHealth => SelectSeq(last.events, IsUserEvent) = Declared \o <<"health">>

\* C17 witness: with two middleware declared, a webhook request ran both
\* before its handler answered 200
C17_Witness ==
  /\ IsPost
  /\ Len(Declared) = 2
  /\ last.events = <<"logger", Declared[1], Declared[2], "post">>
  /\ Answered(last.run, 200)

----------------------------------------------------------------------------
(* The name in the context *)

\* the execute calls of the run held in the trace, HTTP or scheduled
TraceCalls ==
  IF IsPost THEN last.run.calls
  ELSE IF IsTick THEN last.calls
  ELSE <<>>

\* C18: when a definition has no name, the name in the execution context of
\* its invocations, from a request and from a firing alike, is the
\* definition's id.
C18_NameDefaultsToId ==
  \A j \in 1..Len(TraceCalls) :
    LET cfg == Get(TraceCalls[j].wf.config)
    IN cfg.name = None => TraceCalls[j].context.name = cfg.id

----------------------------------------------------------------------------
(* Definitions lacking an id *)

\* no config, no config.id, or an empty config.id
LacksId(wf) == IdOf(wf) \in {None, Some("")}

\* the definitions execute was called for, or is still running for, in this state
Invoked ==
  {TraceCalls[j].wf : j \in 1..Len(TraceCalls)}
    \cup {pending[j].wf : j \in 1..Len(pending)}
    \cup (IF last.kind \in {"settled", "cronSettled"} THEN {last.wf} ELSE {})

\* C19: a supplied definition lacking an id is skipped: it is no registry
\* entry, has no timer binding even when it declares a schedule, is not
\* counted by /health and its execute is never invoked; the other supplied
\* definitions are registered, each id under its key.
C19_NoIdIsSkipped ==
  /\ \A i \in 1..Len(supplied) :
       LacksId(supplied[i]) =>
         /\ \A j \in 1..Len(workflows) : workflows[j].wf # supplied[i]
         /\ \A j \in 1..Len(tasks) : tasks[j].wf # supplied[i]
         /\ supplied[i] \notin Invoked
  /\ "" \notin Keys(workflows)
  /\ pc = "up" =>
       Keys(workflows) = {Get(IdOf(supplied[i])) : i \in {k \in 1..Len(supplied) : ~LacksId(supplied[k])}}
  /\ IsHealth =>
       last.body.loadedWorkflows =
         Cardinality({IdOf(supplied[i]) : i \in {k \in 1..Len(supplied) : ~LacksId(supplied[k])}})

\* C19 witness: started with a scheduled definition without id and a
\* definition with one, the server has no timer, reports one workflow and
\* has the other one registered
C19_Witness ==
  /\ IsHealth
  /\ \E i \in 1..Len(supplied) : LacksId(supplied[i]) /\ HasSchedule(supplied[i])
  /\ tasks = <<>>
  /\ last.body.loadedWorkflows = 1
  /\ Len(supplied) = 2

----------------------------------------------------------------------------
(* miqro init *)

\* the directory as the i-th init run left it
After(i) == IF i < Len(inits) THEN inits[i + 1].before ELSE fs

\* what init writes to each file it creates
InitContent ==
  [p \in Paths \ {WorkflowsPath} |->
     CASE p = ConfigPath -> "defaultConfig"
       [] p = SampleWorkflowPath -> "sampleWorkflow"
       [] p = PkgPath -> "pkgContent"
       [] p = TsconfigPath -> "tsconfigContent"]

\* C20: an init run in a directory without miqro.config.ts creates
\* miqro.config.ts, workflows/sample.ts, package.json and tsconfig.json,
\* leaves those of the latter three that existed as they were, and exits 0;
\* an init run in a directory with miqro.config.ts exits 1 and leaves the
\* directory as it was.  So two runs in a fresh directory exit 0 and then 1,
\* the second leaving the files of the first intact.
C20_InitCreatesOrRefuses ==
  /\ \A i \in 1..Len(inits) :
       LET b == inits[i].before
           a == After(i)
       IN IF b[ConfigPath] = "absent"
          THEN /\ inits[i].code = 0
               /\ a[ConfigPath] = InitContent[ConfigPath]
               /\ \A p \in {SampleWorkflowPath, PkgPath, TsconfigPath} :
                    a[p] = IF b[p] = "absent" THEN InitContent[p] ELSE b[p]
          ELSE inits[i].code = 1 /\ a = b
  /\ (Len(inits) = 2 /\ inits[1].before = FreshDir) =>
       inits[1].code = 0 /\ inits[2].code = 1 /\ fs = inits[2].before

----------------------------------------------------------------------------
(* The order of the steps *)

\* the outcome the step order gives a request: the response of the first
\* step it fails, else one call of execute
FirstFailure(req) ==
  IF ~Registered(req) THEN "resolve"
  ELSE IF ~Allowed(TargetConfig(req).auth, req) THEN "authenticate"
  ELSE IF ~Decodes(req) THEN "decode"
  ELSE IF TargetConfig(req).schema # None /\ ~Parsed(req).success THEN "validate"
  ELSE "none"

\* C21: an HTTP invocation runs Resolve, Authenticate, Decode, Validate,
\* Build context, Invoke, Respond in this order and stops at the first step
\* that fails: the request gets the response of that step (404, 401, the
\* decode 400, the validation 400, in this precedence), no later step runs,
\* and execute is called only when all four checks passed.
C21_FirstFailingStepAnswers ==
  IsPost =>
    LET req == last.req
        step == FirstFailure(req)
        body == last.run.responses[1].body
    IN /\ step = "resolve" =>
            Answered(last.run, 404) /\ body = NotFoundBody(req.id)
       /\ step = "authenticate" => Answered(last.run, 401)
       /\ step = "decode" => Answered(last.run, 400) /\ body = CatchAllBody
       /\ step = "validate" =>
            Answered(last.run, 400) /\ body = ValidationFailedBody(Parsed(req).details)
       /\ step # "none" => last.run.calls = <<>>
       /\ step = "none" => Len(last.run.calls) = 1

----------------------------------------------------------------------------
(* Invocations that do not complete *)

\* an invocation other than the one in the trace is still inside execute
OtherPending ==
  IF IsPost
  THEN Len(pending) > (IF last.run.awaiting THEN 1 ELSE 0)
  ELSE \E i \in 1..Len(pending) : pending[i].kind = "http"

\* C22: an execute that has not completed holds up its own invocation only.
\* While it is pending, a POST that passes the checks still has execute
\* called once and gets the outcome its own execute gives (200 for a value,
\* the generic 400 for a fault, suspension when it is pending too), a POST
\* that fails a check still gets that check's response, and a firing still
\* runs every bound callback.
C22_PendingBlocksOnlyItself ==
  /\ (IsPost /\ OtherPending /\ Registered(last.req)) =>
       IF FirstFailure(last.req) = "none"
       THEN /\ Len(last.run.calls) = 1
            /\ Get(last.exec).kind = "return" => Answered(last.run, 200)
            /\ Get(last.exec).kind = "throw" => Answered(last.run, 400)
            /\ Get(last.exec).kind = "pending" =>
                 last.run.awaiting /\ pending[Len(pending)].id = last.req.id
       ELSE /\ last.run.calls = <<>>
            /\ Len(last.run.responses) = 1
            /\ ~last.run.awaiting
  /\ (IsTick /\ OtherPending /\ alive) => Len(last.calls) = Len(tasks)

\* C22 witness: a POST entered execute of a workflow while an earlier
\* invocation of the same workflow id was still inside execute
C22_Witness ==
  /\ IsPost
  /\ last.run.awaiting
  /\ Len(pending) = 2
  /\ pending[1].kind = "http" /\ pending[2].kind = "http"
  /\ pending[1].id = last.req.id /\ pending[2].id = last.req.id
  /\ pending[1].wf = pending[2].wf

----------------------------------------------------------------------------
(* The error log *)

\* the run ended in the catch-all terminal
CatchAllTerminal(run) ==
  Answered(run, 400) /\ run.responses[1].body = CatchAllBody

\* C23: the handler writes an error log entry for an HTTP invocation iff the
\* invocation ends in the catch-all terminal; runs ending in 404, 401, the
\* validation 400 or 200, and runs suspended in execute, write none.  For a
\* registered workflow the catch-all terminal is reached exactly by a body
\* that cannot be decoded and by a fault of execute, thrown or as a rejected
\* promise.
C23_ErrorLogIffCatchAll ==
  /\ (IsPost \/ IsSettled) =>
       /\ last.run.logged <=> CatchAllTerminal(last.run)
       /\ Statuses(last.run) \cap {200, 401, 404} # {} => ~last.run.logged
       /\ last.run.awaiting => ~last.run.logged
  /\ (IsPost /\ Registered(last.req)) =>
       /\ last.run.logged <=>
            \/ FirstFailure(last.req) = "decode"
            \/ FirstFailure(last.req) = "none" /\ Get(last.exec).kind = "throw"
       /\ FirstFailure(last.req) = "validate" => ~last.run.logged
  /\ IsSettled => (last.run.logged <=> last.outcome.kind = "reject")

\* C23 witness: execute threw, the caller got the generic 400 and the error
\* was logged
C23_Witness ==
  /\ IsPost /\ Registered(last.req)
  /\ FirstFailure(last.req) = "none"
  /\ Get(last.exec).kind = "throw"
  /\ last.run.logged
  /\ CatchAllTerminal(last.run)

----------------------------------------------------------------------------
(* Workflows without a schema *)

IsNoSchemaPost ==
  IsPost /\ Registered(last.req) /\ TargetConfig(last.req).schema = None

\* the run ended in the validation-failed terminal
ValidationFailedTerminal(run) ==
  Answered(run, 400) /\ "details" \in DOMAIN run.responses[1].body

\* C24: for a workflow declaring no schema, execute receives on an HTTP
\* invocation exactly the decoded request body, with every key it had, and
\* the invocation never ends in the validation-failed terminal: every
\* decodable body of an allowed request reaches execute.
C24_NoSchemaPassesRawPayload ==
  IsNoSchemaPost =>
    /\ ~ValidationFailedTerminal(last.run)
    /\ \A j \in 1..Len(last.run.calls) :
         last.run.calls[j].payload = JsonParse(last.req.body).value
    /\ (Allowed(TargetConfig(last.req).auth, last.req) /\ Decodes(last.req)) =>
         Len(last.run.calls) = 1

\* C24 witness: a body with a key and a value that the schema of the model
\* strips or rejects reached execute of a schemaless workflow as decoded
C24_Witness ==
  /\ IsNoSchemaPost
  /\ Len(last.run.calls) = 1
  /\ last.run.calls[1].payload \in {[n |-> 5, x |-> 1], [n |-> -1]}
  /\ Answered(last.run, 200)

----------------------------------------------------------------------------
(* One response per request *)

\* C25: a POST whose execute, if called, has completed got exactly one
\* response, with status 200, 400, 401 or 404, and nothing escaped the
\* handler; a POST still inside execute has got none yet.  A 200 is given
\* only to a request for which execute was called and completed without a
\* fault.
C25_OneResponsePerRequest ==
  /\ IsPost =>
       /\ ~last.run.escaped
       /\ IF last.run.awaiting
          THEN last.run.responses = <<>> /\ Get(last.exec).kind = "pending"
          ELSE Len(last.run.responses) = 1 /\ Statuses(last.run) \subseteq {200, 400, 401, 404}
       /\ 200 \in Statuses(last.run) =>
            /\ Registered(last.req)
            /\ Len(last.run.calls) = 1
            /\ Get(last.exec).kind = "return"
  /\ IsSettled =>
       /\ ~last.run.escaped /\ ~last.run.awaiting
       /\ Len(last.run.responses) = 1 /\ Statuses(last.run) \subseteq {200, 400}
       /\ 200 \in Statuses(last.run) => last.outcome.kind = "resolve"

\* C25 witness: a request was suspended in execute without a response, the
\* promise was then fulfilled and the request got its one response, a 200
C25_Witness ==
  /\ IsSettled
  /\ last.outcome.kind = "resolve"
  /\ last.run.responses # <<>>
  /\ last.run.responses[1].status = 200
  /\ \A i \in 1..Len(pending) : pending[i].id # last.id

----------------------------------------------------------------------------
(* Timers and the registry *)

\* the registry holds the definition wf under its id
Held(wf) == \E i \in 1..Len(workflows) : workflows[i].key = Get(IdOf(wf)) /\ workflows[i].wf = wf

\* C26: after startup every bound timer callback is for the definition the
\* registry holds under that definition's id, and every execute call of a
\* firing is for a definition held in the registry, never for one that a
\* later definition with the same id replaced.
C26_TimersFollowRegistry ==
  pc = "up" =>
    /\ \A j \in 1..Len(tasks) : Held(tasks[j].wf)
    /\ IsTick => \A j \in 1..Len(last.calls) : Held(last.calls[j].wf)
====
